---- MODULE Spec2Model ----
(***************************************************************************)
(* A model of mystlang's extension.ts: project root discovery              *)
(* (getSphinxRoot), markdown file enumeration (findMarkdownFiles), the     *)
(* per-document symbol indexers (queryCrossRefDefLocations,                *)
(* queryReferenceLocations), the project-wide aggregators                  *)
(* (queryAllDefLocations, queryAllReferenceLocations) with their           *)
(* concurrently completing per-file tasks, and the completion provider.    *)
(*                                                                         *)
(* Text is a sequence of one-character strings; columns are 0-based as in  *)
(* JavaScript, so the character at column i of a line is text[i + 1].      *)
(* A path is a sequence of path components, each a sequence of characters; *)
(* the empty path is the filesystem root.                                  *)
(***************************************************************************)
EXTENDS Integers, Sequences, FiniteSets, TLC

VARIABLES
    kind,           \* the entry point that runs: "root", "index", "definitions", "references", "completion"
    pc,             \* position of the running handler
    access,         \* filesystem: outcome of fs.access on each <dir>/conf.py
    content,        \* filesystem: the lines of each markdown file, by file number
    curDoc,         \* file number of the requesting document
    startDir,       \* getSphinxRoot: the directory of the outermost invocation
    dirPath,        \* getSphinxRoot: the directory the current invocation examines
    depthSteps,     \* getSphinxRoot: number of invocations made
    sphinxRootDir,  \* result of getSphinxRoot: <<dir>> when found, <<>> when undefined
    markdownFiles,  \* result of findMarkdownFiles: a set of paths
    task,           \* per path of markdownFiles: "awaiting" or "done"
    allSymbols,     \* the accumulator of queryAllDefLocations / queryAllReferenceLocations
    textDoc,        \* "index": the document handed to the two indexers
    defLocations,   \* "index": result of queryCrossRefDefLocations(textDoc)
    refLocations,   \* "index": result of queryReferenceLocations(textDoc)
    ctx,            \* "completion": [line, character, triggerCharacter]
    result,         \* the map the query returned
    items           \* "completion": what provideCompletionItems returned

vars == <<kind, pc, access, content, curDoc, startDir, dirPath, depthSteps,
          sphinxRootDir, markdownFiles, task, allSymbols, textDoc, defLocations,
          refLocations, ctx, result, items>>

----------------------------------------------------------------------------
(* Bounds of the model *)

\* deepest directory a document lives in (number of components of its path)
MaxDepth == 2
\* number of files in the modelled tree
NumFiles == 3
\* longest document handed to the indexers, in lines
MaxLines == 2

----------------------------------------------------------------------------
(* Characters and character classes *)

Lower == {"a","b","c","d","e","f","g","h","i","j","k","l","m",
          "n","o","p","q","r","s","t","u","v","w","x","y","z"}
Upper == {"A","B","C","D","E","F","G","H","I","J","K","L","M",
          "N","O","P","Q","R","S","T","U","V","W","X","Y","Z"}
Digit == {"0","1","2","3","4","5","6","7","8","9"}

\* \w of a JavaScript regular expression without the u/i flags
WordChars == Lower \cup Upper \cup Digit \cup {"_"}
\* \s restricted to the white space a line of text can hold here
SpaceChars == {" ", "\t"}
\* The backtick (U+0060): the one character of the model that a TLA+ string
\* literal cannot hold, so it is written as a token of its own.
Backtick == "BACKTICK"
\* the class [<backtick>:] of FigureMdRegEx
FenceChars == {Backtick, ":"}
\* the class of LabelRegEx: [\w:+\-.,@]
LabelChars == WordChars \cup {":", "+", "-", ".", ",", "@"}

Min(a, b) == IF a < b THEN a ELSE b
Max(a, b) == IF a > b THEN a ELSE b

\* String.prototype.charAt: "" outside the string
CharAt(text, i) == IF i >= 0 /\ i < Len(text) THEN text[i + 1] ELSE ""

\* whether the literal lit occurs in text at column i
LitAt(text, i, lit) == \A k \in 1..Len(lit) : CharAt(text, i + k - 1) = lit[k]

\* String.prototype.substring(a, b): arguments clamped to 0..length, swapped if a > b
Substring(text, a, b) ==
    LET ca == Max(0, Min(a, Len(text)))
        cb == Max(0, Min(b, Len(text)))
        lo == Min(ca, cb)
        hi == Max(ca, cb)
    IN  SubSeq(text, lo + 1, hi)

\* String.prototype.substring(a): to the end of the string
SubstringFrom(text, a) == Substring(text, a, Len(text))

StartsWith(text, lit) == Len(lit) <= Len(text) /\ SubSeq(text, 1, Len(lit)) = lit

EndsWith(text, lit) ==
    Len(lit) <= Len(text) /\ SubSeq(text, Len(text) - Len(lit) + 1, Len(text)) = lit

\* column after the longest run of characters of class cls starting at column i
RECURSIVE SkipClass(_, _, _)
SkipClass(text, i, cls) ==
    IF i < Len(text) /\ text[i + 1] \in cls THEN SkipClass(text, i + 1, cls) ELSE i

----------------------------------------------------------------------------
(* Regular expressions (extension.ts lines 60-67) *)

SecLit == <<"{", "#">>
FigureMdLit == <<"{","f","i","g","u","r","e","-","m","d","}">>
NameLit == <<":","n","a","m","e",":">>
NumrefLit == <<"{","n","u","m","r","e","f","}",Backtick>>
LinkLit == <<"]", "(">>

\* Each *End operator gives the column where the named pattern, anchored at
\* column 0, ends in text, or -1 when it does not match.  The quantifiers are
\* greedy; no shorter repetition can make the rest match, because the
\* character after each repetition is outside the repeated class.

\* SecStartRegEx = ^\s*\{#
SecStartEnd(text) ==
    LET i == SkipClass(text, 0, SpaceChars)
    IN  IF LitAt(text, i, SecLit) THEN i + Len(SecLit) ELSE -1

\* FigureMdRegEx = ^[<backtick>:]{3,}\{figure-md\}\s*
FigureMdEnd(text) ==
    LET i == SkipClass(text, 0, FenceChars)
    IN  IF i >= 3 /\ LitAt(text, i, FigureMdLit)
        THEN SkipClass(text, i + Len(FigureMdLit), SpaceChars)
        ELSE -1

\* NameRegEx = ^\s*:name:\s*
NameEnd(text) ==
    LET i == SkipClass(text, 0, SpaceChars)
    IN  IF LitAt(text, i, NameLit)
        THEN SkipClass(text, i + Len(NameLit), SpaceChars)
        ELSE -1

\* LabelRegEx = [\w:+\-.,@]+ tried at column i: the column where it ends, or -1
LabelEnd(text, i) ==
    LET e == SkipClass(text, i, LabelChars)
    IN  IF i >= 0 /\ e > i THEN e ELSE -1

\* The matches of (SecStart|FigureMd|Name)(Label) with flags dg on one line, as
\* the sequence of the spans match.indices[2].  The alternatives are tried in
\* order; all are anchored with ^ and the regular expression has no m flag, so
\* a second match, which would start after column 0, cannot exist.
DefMatchAll(text) ==
    LET sec == LabelEnd(text, SecStartEnd(text))
        fig == LabelEnd(text, FigureMdEnd(text))
        nam == LabelEnd(text, NameEnd(text))
    IN  IF sec >= 0 THEN <<[startCol |-> SecStartEnd(text), endCol |-> sec]>>
        ELSE IF fig >= 0 THEN <<[startCol |-> FigureMdEnd(text), endCol |-> fig]>>
        ELSE IF nam >= 0 THEN <<[startCol |-> NameEnd(text), endCol |-> nam]>>
        ELSE <<>>

\* column where one of the two reference triggers found at column j ends, or -1
RefTriggerEnd(text, j) ==
    IF LitAt(text, j, NumrefLit) THEN j + Len(NumrefLit)
    ELSE IF LitAt(text, j, LinkLit) THEN j + Len(LinkLit)
    ELSE -1

\* The matches of (\{numref\}<backtick>|\]\()(Label) with flags dg on one line from
\* column j on: leftmost match first, the search resuming where a match ended.
RECURSIVE RefMatchFrom(_, _)
RefMatchFrom(text, j) ==
    IF j >= Len(text) THEN <<>>
    ELSE LET e == LabelEnd(text, RefTriggerEnd(text, j))
         IN  IF e >= 0
             THEN <<[startCol |-> RefTriggerEnd(text, j), endCol |-> e]>>
                      \o RefMatchFrom(text, e)
             ELSE RefMatchFrom(text, j + 1)

RefMatchAll(text) == RefMatchFrom(text, 0)

----------------------------------------------------------------------------
(* Plain JavaScript objects used as dictionaries *)

\* A dictionary object is modelled by its own enumerable properties, a function
\* from keys to values; {} is the empty function.  What it inherits from
\* Object.prototype is the same for every such object:
ProtoName == <<"_","_","p","r","o","t","o","_","_">>
ObjectPrototypeNames ==
    { ProtoName,
      <<"c","o","n","s","t","r","u","c","t","o","r">>,
      <<"t","o","S","t","r","i","n","g">>,
      <<"t","o","L","o","c","a","l","e","S","t","r","i","n","g">>,
      <<"v","a","l","u","e","O","f">>,
      <<"h","a","s","O","w","n","P","r","o","p","e","r","t","y">>,
      <<"i","s","P","r","o","t","o","t","y","p","e","O","f">>,
      <<"p","r","o","p","e","r","t","y","I","s","E","n","u","m","e","r","a","b","l","e">>,
      <<"_","_","d","e","f","i","n","e","G","e","t","t","e","r","_","_">>,
      <<"_","_","d","e","f","i","n","e","S","e","t","t","e","r","_","_">>,
      <<"_","_","l","o","o","k","u","p","G","e","t","t","e","r","_","_">>,
      <<"_","_","l","o","o","k","u","p","S","e","t","t","e","r","_","_">> }

EmptyObject == <<>>

\* obj[key] = value, where value is an object (a Location or an array).
\* Assigning an object to __proto__ runs the setter inherited from
\* Object.prototype: it replaces the prototype and creates no own property.
SetProperty(obj, key, value) ==
    IF key = ProtoName THEN obj
    ELSE [k \in (DOMAIN obj) \cup {key} |-> IF k = key THEN value ELSE obj[k]]

\* whether obj[key] is truthy: an own property (always an object here) or a
\* member inherited from Object.prototype
HasTruthyProperty(obj, key) == key \in DOMAIN obj \/ key \in ObjectPrototypeNames

\* Object.keys(obj)
ObjectKeys(obj) == DOMAIN obj

\* A merge that spreads the accumulator as it was when the task was launched
\* (still {}), as if allSymbols had been read before the await.
SpreadMergeStaleRead(a, b) == b

\* { ...a, ...b }: the own properties of a, then those of b
SpreadMerge(a, b) ==
    [k \in (DOMAIN a) \cup (DOMAIN b) |-> IF k \in DOMAIN b THEN b[k] ELSE a[k]]

----------------------------------------------------------------------------
(* Symbol indexers *)

\* new vscode.Location(uri, new vscode.Range(new Position(row, s), new Position(row, e)))
NewLocation(uri, row, span) ==
    [uri |-> uri, line |-> row, startCol |-> span.startCol, endCol |-> span.endCol]

\* match[2]: the text of the span
MatchText(text, span) == SubSeq(text, span.startCol + 1, span.endCol)

\* the inner loop of queryCrossRefDefLocations: the matches of one row from the i-th on
RECURSIVE DefRow(_, _, _, _, _)
DefRow(locations, document, row, matches, i) ==
    IF i > Len(matches) THEN locations
    ELSE DefRow(SetProperty(locations,
                            MatchText(document.lines[row + 1], matches[i]),
                            NewLocation(document.uri, row, matches[i])),
                document, row, matches, i + 1)

\* the outer loop of queryCrossRefDefLocations from row on
RECURSIVE DefRows(_, _, _)
DefRows(locations, document, row) ==
    IF row >= Len(document.lines) THEN locations
    ELSE DefRows(DefRow(locations, document, row,
                        DefMatchAll(document.lines[row + 1]), 1),
                 document, row + 1)

QueryCrossRefDefLocations(document) == DefRows(EmptyObject, document, 0)

\* The body of the inner loop of queryReferenceLocations.  acc.locations is the
\* object built so far; acc.threw tells that a TypeError left the function:
\* when locations[symbol] is truthy without being an own property, it is a
\* member of Object.prototype, which has no push method.
RefAdd(acc, symbol, location) ==
    IF acc.threw THEN acc
    ELSE IF symbol \in DOMAIN acc.locations
         THEN [acc EXCEPT !.locations[symbol] = Append(@, location)]
    ELSE IF HasTruthyProperty(acc.locations, symbol)
         THEN [acc EXCEPT !.threw = TRUE]
    ELSE [acc EXCEPT !.locations = SetProperty(@, symbol, <<location>>)]

RECURSIVE RefRow(_, _, _, _, _)
RefRow(acc, document, row, matches, i) ==
    IF i > Len(matches) THEN acc
    ELSE RefRow(RefAdd(acc,
                       MatchText(document.lines[row + 1], matches[i]),
                       NewLocation(document.uri, row, matches[i])),
                document, row, matches, i + 1)

RECURSIVE RefRows(_, _, _)
RefRows(acc, document, row) ==
    IF row >= Len(document.lines) THEN acc
    ELSE RefRows(RefRow(acc, document, row,
                        RefMatchAll(document.lines[row + 1]), 1),
                 document, row + 1)

\* [threw |-> whether the call threw, locations |-> the map it returns otherwise]
QueryReferenceLocations(document) ==
    RefRows([threw |-> FALSE, locations |-> EmptyObject], document, 0)

----------------------------------------------------------------------------
(* Paths and the filesystem *)

\* 'conf.py' (KEY_FILE of getSphinxRoot)
KEY_FILE == <<"c","o","n","f",".","p","y">>
MdSuffix == <<".","m","d">>
NotesName == <<"n","o","t","e","s",".","t","x","t">>
DirComponent == <<"p">>

\* the directory d levels below the filesystem root: /, /p, /p/p, ...
Path(d) == [i \in 1..d |-> DirComponent]
AllDirs == {Path(d) : d \in 0..MaxDepth}

\* path.dirname of a normalized absolute path; the root is its own parent
Dirname(p) == IF Len(p) = 0 THEN p ELSE SubSeq(p, 1, Len(p) - 1)

\* path.join(directory, name)
Join(directory, name) == Append(directory, name)

ConfPaths == {Join(d, KEY_FILE) : d \in AllDirs}
AccessOutcomes == {"ok", "ENOENT", "EACCES"}

\* The modelled tree: file f is named x.md, xx.md, ... and lives f - 1 levels
\* deep (MaxDepth at most); every directory also holds notes.txt.
Files == 1..NumFiles
FileName(f) == [i \in 1..f |-> "x"] \o MdSuffix
FileDepth(f) == Min(f - 1, MaxDepth)
FilePath(f) == Join(Path(FileDepth(f)), FileName(f))
FileOfPath(p) == CHOOSE f \in Files : FilePath(f) = p

\* fs.readdir(directory, { withFileTypes: true })
ReadDir(directory) ==
    (IF Len(directory) < MaxDepth
     THEN {[name |-> DirComponent, isDirectory |-> TRUE]}
     ELSE {})
    \cup {[name |-> FileName(f), isDirectory |-> FALSE] :
             f \in {g \in Files : FileDepth(g) = Len(directory)}}
    \cup {[name |-> NotesName, isDirectory |-> FALSE]}
    \cup (IF access[Join(directory, KEY_FILE)] # "ENOENT"
          THEN {[name |-> KEY_FILE, isDirectory |-> FALSE]}
          ELSE {})

\* An existence check that takes only ENOENT for "does not exist".
DoesFileExistsUnlessENOENT(filePath) == access[filePath] # "ENOENT"

\* doesFileExists: fs.access resolved gives true, any rejection gives false
DoesFileExists(filePath) == access[filePath] = "ok"

IsMarkdownFile(fileName) == EndsWith(fileName, MdSuffix)

\* searchDirectory of findMarkdownFiles; fs.readdir rejects for the
\* directories of unreadable.  [threw, files]: whether the rejection left the
\* function, and the paths added to markdownFiles.
RECURSIVE SearchDirectory(_, _)
SearchDirectory(directory, unreadable) ==
    IF directory \in unreadable THEN [threw |-> TRUE, files |-> {}]
    ELSE LET entries == ReadDir(directory)
             subs == {SearchDirectory(Join(directory, e.name), unreadable) :
                         e \in {x \in entries : x.isDirectory}}
             here == {Join(directory, e.name) :
                         e \in {x \in entries : ~x.isDirectory /\ IsMarkdownFile(x.name)}}
         IN  [threw |-> \E r \in subs : r.threw,
              files |-> here \cup UNION {r.files : r \in subs}]

FindMarkdownFiles(root, unreadable) == SearchDirectory(root, unreadable)

\* the directories of the tree rooted at root
Subtree(root) == {d \in AllDirs : Len(d) >= Len(root)}

\* vscode.workspace.openTextDocument(f), when it resolves
OpenTextDocument(f) == [uri |-> f, lines |-> content[FileOfPath(f)]]

CurDocument == OpenTextDocument(FilePath(curDoc))

----------------------------------------------------------------------------
(* getSphinxRoot *)

\* One invocation of getSphinxRoot on directory: it returns directory, returns
\* undefined, or calls itself on the parent.
SphinxRootStep(directory) ==
    IF DoesFileExists(Join(directory, KEY_FILE))
    THEN [done |-> TRUE, found |-> TRUE, dir |-> directory]
    ELSE IF Dirname(directory) = directory
    THEN [done |-> TRUE, found |-> FALSE, dir |-> directory]
    ELSE [done |-> FALSE, found |-> FALSE, dir |-> Dirname(directory)]

GetSphinxRoot ==
    /\ pc = "root"
    /\ LET r == SphinxRootStep(dirPath)
       IN  /\ dirPath' = r.dir
           /\ pc' = IF r.done THEN "resolved" ELSE "root"
           /\ sphinxRootDir' = IF r.found THEN <<r.dir>> ELSE <<>>
    /\ depthSteps' = depthSteps + 1
    /\ UNCHANGED <<kind, access, content, curDoc, startDir, markdownFiles, task,
                   allSymbols, textDoc, defLocations, refLocations, ctx, result, items>>

----------------------------------------------------------------------------
(* queryAllDefLocations, queryAllReferenceLocations *)

QueryKinds == {"definitions", "references", "completion"}
\* the kinds whose query is queryAllDefLocations
DefKinds == {"definitions", "completion"}

NoItems == [defined |-> FALSE, labels |-> {}]

\* The forEach of queryAllReferenceLocations (lines 148-154): a symbol whose
\* entry in allSymbols is truthy keeps that entry, because the array that
\* concat returns is not stored; any other symbol gets the file's array.  No
\* key of refLocs is inherited from Object.prototype (queryReferenceLocations
\* throws before it stores one), so concat is always called on an array.
MergeReferences(all, refLocs) ==
    [k \in (DOMAIN all) \cup {x \in ObjectKeys(refLocs) : ~HasTruthyProperty(all, x)} |->
        IF k \in DOMAIN all THEN all[k] ELSE refLocs[k]]

\* the items provideCompletionItems builds from the map (lines 184-186)
CompletionItems(map) == [defined |-> TRUE, labels |-> ObjectKeys(map)]

\* if (!sphinxRootDir) return queryCrossRefDefLocations(curDoc) /
\* queryReferenceLocations(curDoc)
SingleDocument ==
    /\ pc = "resolved"
    /\ kind \in QueryKinds
    /\ sphinxRootDir = <<>>
    /\ IF kind \in DefKinds
       THEN /\ result' = QueryCrossRefDefLocations(CurDocument)
            /\ pc' = "returned"
            /\ items' = IF kind = "completion" THEN CompletionItems(result') ELSE items
       ELSE LET r == QueryReferenceLocations(CurDocument)
            IN  /\ result' = IF r.threw THEN result ELSE r.locations
                /\ pc' = IF r.threw THEN "rejected" ELSE "returned"
                /\ items' = items
    /\ UNCHANGED <<kind, access, content, curDoc, startDir, dirPath, depthSteps,
                   sphinxRootDir, markdownFiles, task, allSymbols, textDoc,
                   defLocations, refLocations, ctx>>

\* findMarkdownFiles rejects: a directory of the tree cannot be read
FindMarkdownFilesThrows ==
    /\ pc = "resolved"
    /\ kind \in QueryKinds
    /\ sphinxRootDir # <<>>
    /\ \E d \in Subtree(sphinxRootDir[1]) :
          FindMarkdownFiles(sphinxRootDir[1], {d}).threw
    /\ pc' = "rejected"
    /\ UNCHANGED <<kind, access, content, curDoc, startDir, dirPath, depthSteps,
                   sphinxRootDir, markdownFiles, task, allSymbols, textDoc,
                   defLocations, refLocations, ctx, result, items>>

\* findMarkdownFiles resolves; Array.from(markdownFiles).map(async ...) then
\* runs every task up to its await of openTextDocument
LaunchTasks ==
    /\ pc = "resolved"
    /\ kind \in QueryKinds
    /\ sphinxRootDir # <<>>
    /\ ~FindMarkdownFiles(sphinxRootDir[1], {}).threw
    /\ markdownFiles' = FindMarkdownFiles(sphinxRootDir[1], {}).files
    /\ task' = [f \in markdownFiles' |-> "awaiting"]
    /\ allSymbols' = EmptyObject
    /\ pc' = "await"
    /\ UNCHANGED <<kind, access, content, curDoc, startDir, dirPath, depthSteps,
                   sphinxRootDir, textDoc, defLocations, refLocations, ctx,
                   result, items>>

\* openTextDocument(f) resolves and the rest of the task of f runs to its end,
\* without another await
TaskResume(f) ==
    /\ pc = "await"
    /\ f \in DOMAIN task
    /\ task[f] = "awaiting"
    /\ IF kind \in DefKinds
       THEN /\ allSymbols' = SpreadMerge(allSymbols,
                                         QueryCrossRefDefLocations(OpenTextDocument(f)))
            /\ pc' = pc
       ELSE LET r == QueryReferenceLocations(OpenTextDocument(f))
            IN  /\ allSymbols' = IF r.threw THEN allSymbols
                                 ELSE MergeReferences(allSymbols, r.locations)
                /\ pc' = IF r.threw THEN "rejected" ELSE pc
    /\ task' = [task EXCEPT ![f] = "done"]
    /\ UNCHANGED <<kind, access, content, curDoc, startDir, dirPath, depthSteps,
                   sphinxRootDir, markdownFiles, textDoc, defLocations,
                   refLocations, ctx, result, items>>

\* openTextDocument(f) rejects (the file was deleted after the listing, or
\* cannot be read as text): the task rejects and so does Promise.all
TaskOpenFails(f) ==
    /\ pc = "await"
    /\ f \in DOMAIN task
    /\ task[f] = "awaiting"
    /\ pc' = "rejected"
    /\ UNCHANGED <<kind, access, content, curDoc, startDir, dirPath, depthSteps,
                   sphinxRootDir, markdownFiles, task, allSymbols, textDoc,
                   defLocations, refLocations, ctx, result, items>>

\* Promise.all resolves once every task has; return allSymbols
ReturnAllSymbols ==
    /\ pc = "await"
    /\ \A f \in DOMAIN task : task[f] = "done"
    /\ result' = allSymbols
    /\ items' = IF kind = "completion" THEN CompletionItems(allSymbols) ELSE items
    /\ pc' = "returned"
    /\ UNCHANGED <<kind, access, content, curDoc, startDir, dirPath, depthSteps,
                   sphinxRootDir, markdownFiles, task, allSymbols, textDoc,
                   defLocations, refLocations, ctx>>

----------------------------------------------------------------------------
(* MySTCompletionItemProvider.provideCompletionItems *)

\* context.triggerCharacter when the completion was not typed-character triggered
Undefined == "undefined"

\* the condition of lines 167-180 under which the provider goes on to
\* queryAllDefLocations
PassesTriggerCheck(text, character, triggerCharacter) ==
    IF triggerCharacter = Backtick
    THEN StartsWith(SubstringFrom(text, character - Len(NumrefLit)), NumrefLit)
    ELSE IF triggerCharacter = "("
    THEN Substring(text, character - 1, 1) = <<"]">>
    ELSE TRUE

\* document.lineAt(position.line).text
CtxLineText == content[curDoc][ctx.line + 1]

CompletionNotApplicable ==
    /\ pc = "trigger"
    /\ ~PassesTriggerCheck(CtxLineText, ctx.character, ctx.triggerCharacter)
    /\ items' = NoItems
    /\ pc' = "returned"
    /\ UNCHANGED <<kind, access, content, curDoc, startDir, dirPath, depthSteps,
                   sphinxRootDir, markdownFiles, task, allSymbols, textDoc,
                   defLocations, refLocations, ctx, result>>

CompletionProceeds ==
    /\ pc = "trigger"
    /\ PassesTriggerCheck(CtxLineText, ctx.character, ctx.triggerCharacter)
    /\ pc' = "root"
    /\ UNCHANGED <<kind, access, content, curDoc, startDir, dirPath, depthSteps,
                   sphinxRootDir, markdownFiles, task, allSymbols, textDoc,
                   defLocations, refLocations, ctx, result, items>>

----------------------------------------------------------------------------
(* The two indexers applied to one document *)

IndexDocument ==
    /\ pc = "index"
    /\ defLocations' = QueryCrossRefDefLocations(textDoc)
    /\ refLocations' = QueryReferenceLocations(textDoc)
    /\ pc' = "indexed"
    /\ UNCHANGED <<kind, access, content, curDoc, startDir, dirPath, depthSteps,
                   sphinxRootDir, markdownFiles, task, allSymbols, textDoc, ctx,
                   result, items>>

----------------------------------------------------------------------------
(* Inputs *)

\* lines for the documents handed to the indexers
LinePool ==
    { <<"{","#","a","}">>,
      <<" "," ","{","#","a","}">>,
      <<Backtick,Backtick,Backtick,"{","f","i","g","u","r","e","-","m","d","}"," ","b">>,
      <<":",":","{","f","i","g","u","r","e","-","m","d","}"," ","b">>,
      <<":","n","a","m","e",":"," ","a","_","b">>,
      <<"x","{","#","a","}">>,
      <<"{","#","_","_","p","r","o","t","o","_","_","}">>,
      <<"{","n","u","m","r","e","f","}",Backtick,"a",Backtick,"]","(","b">>,
      <<"]","(","a","]","(","a">>,
      <<"]","(","c","o","n","s","t","r","u","c","t","o","r",")">>,
      <<":","n","a","m","e",":",":","b">>,
      <<"{","#","}">> }

\* the documents of at most n lines over LinePool
RECURSIVE DocsUpTo(_)
DocsUpTo(n) ==
    IF n = 0 THEN {<<>>}
    ELSE DocsUpTo(n - 1) \cup
         {Append(d, l) : d \in {x \in DocsUpTo(n - 1) : Len(x) = n - 1}, l \in LinePool}

\* file contents for the project-wide queries
DocA == << <<"{","#","a","}">>,
            <<"]","(","a","]","(","a">> >>
DocB == << <<":","n","a","m","e",":"," ","b">>,
            <<"{","n","u","m","r","e","f","}",Backtick,"a",Backtick>> >>
DocC == << <<"{","#","_","_","p","r","o","t","o","_","_","}">>,
            <<"[","t","]","(","c","o","n","s","t","r","u","c","t","o","r",")">> >>
ProjectDocs == {DocA, DocB, DocC}

\* conf.py in at most one directory, and no access error
ProjectAccess ==
    {a \in [ConfPaths -> {"ok", "ENOENT"}] :
        Cardinality({c \in ConfPaths : a[c] = "ok"}) <= 1}

\* the line being edited when completion is requested
CompletionLines ==
    { <<"{","n","u","m","r","e","f","}",Backtick>>,
      <<"s","e","e"," ","[","t","]","(">>,
      <<"x","]","(">>,
      <<"f","(">>,
      <<"p","l","a","i","n">>,
      <<"a",Backtick>>,
      <<"]","(">> }

\* A typed trigger character is the character before the caret; the provider
\* is registered for ( and the backtick only (line 233).
CompletionContexts(text) ==
    {c \in [line : {0}, character : 0..Len(text),
            triggerCharacter : {Backtick, "(", Undefined}] :
        c.triggerCharacter # Undefined =>
            CharAt(text, c.character - 1) = c.triggerCharacter}

IdleQuery ==
    /\ depthSteps = 0
    /\ sphinxRootDir = <<>>
    /\ markdownFiles = {}
    /\ task = <<>>
    /\ allSymbols = EmptyObject
    /\ result = EmptyObject
    /\ items = NoItems

IdleIndex ==
    /\ textDoc = [uri |-> FilePath(1), lines |-> <<>>]
    /\ defLocations = EmptyObject
    /\ refLocations = [threw |-> FALSE, locations |-> EmptyObject]

IdleCtx == ctx = [line |-> 0, character |-> 0, triggerCharacter |-> Undefined]

InitRoot ==
    /\ kind = "root"
    /\ pc = "root"
    /\ access \in [ConfPaths -> AccessOutcomes]
    /\ content = [f \in Files |-> <<>>]
    /\ curDoc = NumFiles
    /\ startDir \in AllDirs
    /\ dirPath = startDir
    /\ IdleQuery /\ IdleIndex /\ IdleCtx

InitProject ==
    /\ kind \in {"definitions", "references"}
    /\ pc = "root"
    /\ access \in ProjectAccess
    /\ content \in [Files -> ProjectDocs]
    /\ curDoc \in Files
    /\ startDir = Dirname(FilePath(curDoc))
    /\ dirPath = startDir
    /\ IdleQuery /\ IdleIndex /\ IdleCtx

InitCompletion ==
    /\ kind = "completion"
    /\ pc = "trigger"
    /\ access \in ProjectAccess
    /\ curDoc = NumFiles
    /\ \E text \in CompletionLines :
          /\ content = [f \in Files |-> IF f = curDoc THEN <<text>>
                                        ELSE IF f % 2 = 1 THEN DocA ELSE DocB]
          /\ ctx \in CompletionContexts(text)
    /\ startDir = Dirname(FilePath(curDoc))
    /\ dirPath = startDir
    /\ IdleQuery /\ IdleIndex

InitIndex ==
    /\ kind = "index"
    /\ pc = "index"
    /\ access = [c \in ConfPaths |-> "ENOENT"]
    /\ content = [f \in Files |-> <<>>]
    /\ curDoc = NumFiles
    /\ startDir = Dirname(FilePath(curDoc))
    /\ dirPath = startDir
    /\ IdleQuery /\ IdleCtx
    /\ textDoc \in {[uri |-> FilePath(1), lines |-> d] : d \in DocsUpTo(MaxLines)}
    /\ defLocations = EmptyObject
    /\ refLocations = [threw |-> FALSE, locations |-> EmptyObject]

Init == InitRoot \/ InitProject \/ InitCompletion \/ InitIndex

----------------------------------------------------------------------------
(* Specifications *)

NextRoot == GetSphinxRoot

NextProject ==
    \/ GetSphinxRoot
    \/ SingleDocument
    \/ FindMarkdownFilesThrows
    \/ LaunchTasks
    \/ \E f \in DOMAIN task : TaskResume(f)
    \/ \E f \in DOMAIN task : TaskOpenFails(f)
    \/ ReturnAllSymbols

NextCompletion ==
    \/ CompletionNotApplicable
    \/ CompletionProceeds
    \/ NextProject

NextIndex == IndexDocument

Next == NextCompletion \/ NextIndex

\* getSphinxRoot alone, over every outcome of the existence checks
SpecRoot == InitRoot /\ [][NextRoot]_vars
\* the definition and reference queries of a project
SpecProject == InitProject /\ [][NextProject]_vars
\* the completion provider
SpecCompletion == InitCompletion /\ [][NextCompletion]_vars
\* the two indexers on one document
SpecIndex == InitIndex /\ [][NextIndex]_vars

Spec == Init /\ [][Next]_vars

----------------------------------------------------------------------------
(* Vocabulary of the properties *)

\* the characters the README (line 18) gives for an ID
ReadmeIdChars == Lower \cup Upper \cup Digit \cup {"-", ":", "+", ",", ".", "@"}

AllIn(s, from, to, cls) == \A i \in from..to : s[i] \in cls

\* s is white space, then {#
IsSecStartPrefix(s) ==
    /\ Len(s) >= 2
    /\ SubSeq(s, Len(s) - 1, Len(s)) = SecLit
    /\ AllIn(s, 1, Len(s) - 2, SpaceChars)

\* s is three or more backticks or colons, then {figure-md}, then white space
IsFigureMdPrefix(s) ==
    \E n \in 3..Len(s) :
        /\ n + Len(FigureMdLit) <= Len(s)
        /\ AllIn(s, 1, n, FenceChars)
        /\ SubSeq(s, n + 1, n + Len(FigureMdLit)) = FigureMdLit
        /\ AllIn(s, n + Len(FigureMdLit) + 1, Len(s), SpaceChars)

\* s is white space, then :name:, then white space
IsNamePrefix(s) ==
    \E k \in 0..Len(s) :
        /\ k + Len(NameLit) <= Len(s)
        /\ AllIn(s, 1, k, SpaceChars)
        /\ SubSeq(s, k + 1, k + Len(NameLit)) = NameLit
        /\ AllIn(s, k + Len(NameLit) + 1, Len(s), SpaceChars)

\* the spans of a line that hold a whole identifier over the class cls
IdSpans(text, cls) ==
    {sp \in [startCol : 0..Len(text), endCol : 0..Len(text)] :
        /\ sp.startCol < sp.endCol
        /\ AllIn(text, sp.startCol + 1, sp.endCol, cls)
        /\ (sp.endCol = Len(text) \/ text[sp.endCol + 1] \notin cls)}

\* the identifiers of a line that follow a definition pattern: their spans
DefSites(text, cls) ==
    {sp \in IdSpans(text, cls) :
        LET s == SubSeq(text, 1, sp.startCol)
        IN  IsSecStartPrefix(s) \/ IsFigureMdPrefix(s) \/ IsNamePrefix(s)}

\* the identifiers of a line that follow a reference trigger: their spans
RefSites(text, cls) ==
    {sp \in IdSpans(text, cls) :
        \E lit \in {NumrefLit, LinkLit} :
            /\ sp.startCol >= Len(lit)
            /\ SubSeq(text, sp.startCol - Len(lit) + 1, sp.startCol) = lit}

Range(seq) == {seq[i] : i \in 1..Len(seq)}

\* the occurrences [row, span] of a definition pattern, of a reference
\* pattern, in a document
DefOccurrences(document) ==
    UNION {{[row |-> r, span |-> sp] : sp \in DefSites(document.lines[r + 1], LabelChars)} :
              r \in 0..(Len(document.lines) - 1)}
RefOccurrences(document) ==
    UNION {{[row |-> r, span |-> sp] : sp \in RefSites(document.lines[r + 1], LabelChars)} :
              r \in 0..(Len(document.lines) - 1)}

OccSymbol(document, o) == MatchText(document.lines[o.row + 1], o.span)
OccLocation(document, o) == NewLocation(document.uri, o.row, o.span)

DefinedSymbols(document) == {OccSymbol(document, o) : o \in DefOccurrences(document)}
DefLocationsOf(document, symbol) ==
    {OccLocation(document, o) :
        o \in {x \in DefOccurrences(document) : OccSymbol(document, x) = symbol}}
RefLocationsOf(document, symbol) ==
    {OccLocation(document, o) :
        o \in {x \in RefOccurrences(document) : OccSymbol(document, x) = symbol}}

\* the Location of the last line of document that defines symbol
LastDefLocation(document, symbol) ==
    CHOOSE l \in DefLocationsOf(document, symbol) :
        \A m \in DefLocationsOf(document, symbol) : m.line <= l.line

\* a query that found a project root has returned
ProjectReturned(k) == pc = "returned" /\ kind = k /\ sphinxRootDir # <<>>

ProjectDocuments == {OpenTextDocument(f) : f \in markdownFiles}

----------------------------------------------------------------------------
(* C1 *)

ProjectRefLocations(symbol) ==
    UNION {RefLocationsOf(d, symbol) : d \in ProjectDocuments}
ReferencedSymbols ==
    UNION {{OccSymbol(d, o) : o \in RefOccurrences(d)} : d \in ProjectDocuments}

\* C1: when queryAllReferenceLocations returns for a project, the sequence it
\* holds for every referenced identifier X contains every reference location
\* of X of every markdown file, and is as long as the per-file counts summed.
C1_MergeKeepsAllReferences ==
    ProjectReturned("references") =>
        \A X \in ReferencedSymbols :
            /\ X \in DOMAIN result
            /\ Range(result[X]) = ProjectRefLocations(X)
            /\ Len(result[X]) = Cardinality(ProjectRefLocations(X))

----------------------------------------------------------------------------
(* C2 *)

PerFileDefs(f) == QueryCrossRefDefLocations(OpenTextDocument(f))

\* the per-file definition maps of the files fs have pairwise disjoint key sets
DisjointDefs(fs) ==
    \A f, g \in fs : f # g => ObjectKeys(PerFileDefs(f)) \cap ObjectKeys(PerFileDefs(g)) = {}

\* the union of the per-file definition maps of the files fs
UnionOfDefs(fs) ==
    [k \in UNION {ObjectKeys(PerFileDefs(f)) : f \in fs} |->
        PerFileDefs(CHOOSE f \in fs : k \in ObjectKeys(PerFileDefs(f)))[k]]

DoneFiles == {f \in DOMAIN task : task[f] = "done"}

\* C2: when the markdown files of the project define pairwise disjoint
\* identifier sets, the accumulator of queryAllDefLocations is, after every
\* completion of a task in whatever order, the union of the maps of the files
\* completed so far, and the map returned is the union of all per-file maps.
C2_DisjointDefinitionMergeIsUnion ==
    (kind = "definitions" /\ sphinxRootDir # <<>> /\ DisjointDefs(markdownFiles)) =>
        /\ pc = "await" => allSymbols = UnionOfDefs(DoneFiles)
        /\ pc = "returned" => result = UnionOfDefs(markdownFiles)

\* a project of three files with disjoint definitions, two of them not empty,
\* has been merged and returned
C2_Witness ==
    /\ ProjectReturned("definitions")
    /\ Cardinality(markdownFiles) >= 3
    /\ DisjointDefs(markdownFiles)
    /\ Cardinality({f \in markdownFiles : ObjectKeys(PerFileDefs(f)) # {}}) >= 2

----------------------------------------------------------------------------
(* C3 *)

\* the identifiers a definition pattern introduces in two files or more
MultiplyDefinedSymbols ==
    {X \in UNION {DefinedSymbols(d) : d \in ProjectDocuments} :
        Cardinality({d \in ProjectDocuments : X \in DefinedSymbols(d)}) >= 2}

\* C3: when queryAllDefLocations returns for a project, every identifier
\* defined in two files (or more) has an entry in the map, and the entry is
\* the Location of a definition of that identifier in one of those files.
C3_DuplicateDefinitionKeepsOneSite ==
    ProjectReturned("definitions") =>
        \A X \in MultiplyDefinedSymbols :
            /\ X \in DOMAIN result
            /\ result[X] \in UNION {DefLocationsOf(d, X) : d \in ProjectDocuments}

----------------------------------------------------------------------------
(* C4 *)

\* the directories on the ancestor chain of d, d included
Ancestors(d) == {SubSeq(d, 1, k) : k \in 0..Len(d)}

\* the ancestors of the start directory whose existence check of conf.py succeeds
ConfDirs == {a \in Ancestors(startDir) : access[Join(a, KEY_FILE)] = "ok"}

\* C4: getSphinxRoot makes at most one invocation per directory of the
\* ancestor chain, each one level above the last, so it terminates; it never
\* rejects; and what it returns is the nearest ancestor (the start directory
\* included) whose existence check of conf.py succeeds, an access error
\* counting as absence, or undefined when there is no such ancestor.
C4_RootResolution ==
    /\ pc \in {"root", "resolved"}
    /\ depthSteps <= Len(startDir) + 1
    /\ pc = "root" => Len(dirPath) + depthSteps = Len(startDir)
    /\ pc = "resolved" =>
          IF ConfDirs = {} THEN sphinxRootDir = <<>>
          ELSE /\ sphinxRootDir # <<>>
               /\ sphinxRootDir[1] \in ConfDirs
               /\ \A a \in ConfDirs : Len(a) <= Len(sphinxRootDir[1])

\* the walk passed a directory whose check failed with an access error and
\* found conf.py in a directory above it
C4_Witness ==
    /\ kind = "root"
    /\ pc = "resolved"
    /\ sphinxRootDir # <<>>
    /\ \E a \in Ancestors(startDir) :
          /\ Len(a) > Len(sphinxRootDir[1])
          /\ access[Join(a, KEY_FILE)] = "EACCES"

----------------------------------------------------------------------------
(* C5, C6 *)

\* the text before the caret ends with lit
PrecededBy(text, character, lit) ==
    /\ character >= Len(lit)
    /\ character <= Len(text)
    /\ SubSeq(text, character - Len(lit) + 1, character) = lit

\* the keys of the map that queryAllDefLocations gives for the requesting
\* document: those of its own definitions when no directory of its ancestor
\* chain passes the existence check of conf.py, else those of every markdown
\* file under the nearest such directory
ExpectedDefKeys ==
    IF ConfDirs = {} THEN ObjectKeys(PerFileDefs(FilePath(curDoc)))
    ELSE LET root == CHOOSE a \in ConfDirs : \A b \in ConfDirs : Len(b) <= Len(a)
         IN  UNION {ObjectKeys(PerFileDefs(f)) : f \in FindMarkdownFiles(root, {}).files}

\* C5: provideCompletionItems returns no candidates (undefined or an empty
\* list) whenever the text before the caret is neither {numref}<backtick>
\* nor ](, whatever the trigger, a missing trigger character included.
C5_NoCandidatesWithoutTrigger ==
    (kind = "completion" /\ pc = "returned"
        /\ ~PrecededBy(CtxLineText, ctx.character, NumrefLit)
        /\ ~PrecededBy(CtxLineText, ctx.character, LinkLit)) =>
            items.labels = {}

\* C6: when the trigger is a backtick typed after {numref}, or an open
\* parenthesis typed after ] at any column, provideCompletionItems returns
\* exactly the keys of the definition map of queryAllDefLocations.
C6_ApplicableCompletionListsAllKeys ==
    (kind = "completion" /\ pc = "returned"
        /\ \/ /\ ctx.triggerCharacter = Backtick
              /\ PrecededBy(CtxLineText, ctx.character, NumrefLit)
           \/ /\ ctx.triggerCharacter = "("
              /\ PrecededBy(CtxLineText, ctx.character, LinkLit)) =>
            items.labels = ExpectedDefKeys

----------------------------------------------------------------------------
(* C7 *)

\* C7: no definition, reference or completion query ends in a rejected
\* promise, whatever the filesystem or the document provider does.
C7_QueriesNeverReject == kind \in QueryKinds => pc # "rejected"

----------------------------------------------------------------------------
(* C8 *)

\* C8: queryCrossRefDefLocations(D) has exactly one entry per identifier that
\* a definition pattern introduces on some line of D, and the entry is the
\* Location of the last such line, spanning the identifier's characters.
C8_OneEntryPerDefinedIdentifier ==
    pc = "indexed" =>
        /\ ObjectKeys(defLocations) = DefinedSymbols(textDoc)
        /\ \A X \in DefinedSymbols(textDoc) :
              defLocations[X] = LastDefLocation(textDoc, X)

----------------------------------------------------------------------------
(* C9 *)

\* the reference merge run over the files in the order of their numbers
RECURSIVE MergeInFileOrder(_)
MergeInFileOrder(n) ==
    IF n = 0 THEN EmptyObject
    ELSE IF FilePath(n) \in markdownFiles
    THEN MergeReferences(MergeInFileOrder(n - 1),
                         QueryReferenceLocations(OpenTextDocument(FilePath(n))).locations)
    ELSE MergeInFileOrder(n - 1)

\* C9: the set of Locations that queryAllReferenceLocations returns for each
\* identifier does not depend on the order in which the tasks complete: it
\* is the set that completion in the order of the file numbers gives.
C9_ReferenceMergeOrderIndependent ==
    ProjectReturned("references") =>
        /\ DOMAIN result = DOMAIN MergeInFileOrder(NumFiles)
        /\ \A X \in DOMAIN result :
              Range(result[X]) = Range(MergeInFileOrder(NumFiles)[X])

----------------------------------------------------------------------------
(* C10 *)

\* C10: every key of a definition map and of a reference map is one or more
\* characters of A-Z, a-z, 0-9, - : + , . @
C10_KeysUseReadmeCharacters ==
    pc = "indexed" =>
        \A X \in ObjectKeys(defLocations) \cup ObjectKeys(refLocations.locations) :
            Len(X) >= 1 /\ AllIn(X, 1, Len(X), ReadmeIdChars)

----------------------------------------------------------------------------
(* Supporting properties: the indexers against the patterns, __proto__ and   *)
(* the members of Object.prototype set aside                                *)

\* queryCrossRefDefLocations has one entry per identifier other than
\* __proto__ that a definition pattern introduces, for its last line
DefIndexMatchesPatternsExceptProto ==
    pc = "indexed" =>
        /\ ObjectKeys(defLocations) = DefinedSymbols(textDoc) \ {ProtoName}
        /\ \A X \in ObjectKeys(defLocations) :
              defLocations[X] = LastDefLocation(textDoc, X)

\* queryReferenceLocations throws exactly when a referenced identifier is a
\* member of Object.prototype, and otherwise holds every reference once
RefIndexMatchesPatterns ==
    pc = "indexed" =>
        LET referenced == {OccSymbol(textDoc, o) : o \in RefOccurrences(textDoc)}
        IN  /\ refLocations.threw <=> referenced \cap ObjectPrototypeNames # {}
            /\ ~refLocations.threw =>
                  /\ ObjectKeys(refLocations.locations) = referenced
                  /\ \A X \in referenced :
                        /\ Range(refLocations.locations[X]) = RefLocationsOf(textDoc, X)
                        /\ Len(refLocations.locations[X]) =
                               Cardinality(RefLocationsOf(textDoc, X))

\* the merged definition map holds, for every identifier other than __proto__
\* defined in two files or more, the Location of one of its definitions
DuplicateDefinitionKeepsOneSiteExceptProto ==
    ProjectReturned("definitions") =>
        \A X \in MultiplyDefinedSymbols \ {ProtoName} :
            /\ X \in DOMAIN result
            /\ result[X] \in {LastDefLocation(d, X) :
                                 d \in {x \in ProjectDocuments : X \in DefinedSymbols(x)}}

\* the trigger check for a typed backtick is exact, and a completion that
\* passes the trigger check lists exactly the keys of the definition map
CompletionListsAllKeysWhenItProceeds ==
    kind = "completion" =>
        /\ ctx.triggerCharacter = Backtick =>
              (PassesTriggerCheck(CtxLineText, ctx.character, ctx.triggerCharacter)
                  <=> PrecededBy(CtxLineText, ctx.character, NumrefLit))
        /\ (pc = "returned"
              /\ PassesTriggerCheck(CtxLineText, ctx.character, ctx.triggerCharacter)) =>
              items = [defined |-> TRUE, labels |-> ExpectedDefKeys]

====
